---- MODULE Spec2Model ----
(***************************************************************************)
(* Epoch Zero simulation: the simulation core (mothe_simulation_core.py)   *)
(* and the dashboard driver loop (streamlit_app.py).                       *)
(*                                                                         *)
(* Units.  Floating-point quantities are kept as exact integers:           *)
(*   irradiance        in units of 100 W/m2      (8 .. 12)                 *)
(*   temperature       in degrees Celsius        (15 .. 45)                *)
(*   panel_health      in units of 0.01 percent  (8000 .. 10000)           *)
(*   energy (MWh)      in units of 1/(3.6 * 10^11) MWh, so that            *)
(*                     (irr/1000 * 0.3) * (health/100) * temp_factor       *)
(*                       * (seconds/3600)                                  *)
(*                     is  irr100 * 3 * health * temp_factor100 * seconds  *)
(*   gold, oil         in units of 10^-6 (the 6 digits round() keeps)      *)
(*   random rates      in units of 10^-6 per minute                        *)
(* A log line is the record of its time stamp, its tag and its region; the *)
(* numbers interpolated into the text are the values of the state.         *)
(***************************************************************************)
EXTENDS Integers, Sequences, FiniteSets, TLC

VARIABLES
    GRID_NODES,          \* the configured region names (module constant)
    simulation_running,  \* st.session_state.simulation_running
    sim_results,         \* st.session_state.sim_results / current_results
    objects_created,     \* number of node/monitor objects constructed so far
    ticks,               \* number of run_simulation_step calls performed
    starts,              \* number of times Start was pressed
    step_locals          \* arguments and locals of the last run_simulation_step

vars == <<GRID_NODES, simulation_running, sim_results, objects_created,
          ticks, starts, step_locals>>

---------------------------------------------------------------------------
(* Program constants *)

SIM_INTERVAL_SECONDS == 1

THREAT_THRESHOLD == 8500

LOG_LIMIT == 50

MIN_PANEL_HEALTH == 8000

FULL_PANEL_HEALTH == 10000

MIN_TEMP_FACTOR == 75

SECONDS_PER_DAY == 86400

DefaultGridNodes == <<"RegionAlpha", "RegionBeta", "RegionGamma">>

(* Bounds of the model *)

MaxTicks == 3

MaxStarts == 2

RunTicks == 10

MaxCalls == 2

CfgTicks == 2

UtcNow == 86398

---------------------------------------------------------------------------
(* Helpers *)

Max(a, b) == IF a >= b THEN a ELSE b

Min(a, b) == IF a <= b THEN a ELSE b

RECURSIVE SumSeq(_)
SumSeq(s) == IF s = <<>> THEN 0 ELSE Head(s) + SumSeq(Tail(s))

\* Python's round(n / d) for n >= 0, d > 0: nearest integer, ties to even.
RoundDiv(n, d) ==
    LET q == n \div d
        r == n % d
    IN  IF 2 * r < d THEN q
        ELSE IF 2 * r > d THEN q + 1
        ELSE IF q % 2 = 0 THEN q ELSE q + 1

\* current_time.strftime('%H:%M:%S'): the time of day, the date dropped.
strftime(t) == t % SECONDS_PER_DAY

Line(t, tag, region) == [time |-> strftime(t), tag |-> tag, region |-> region]

---------------------------------------------------------------------------
(* SolarNodeController *)

SolarNodeController(node_name, id) ==
    [id |-> id, node_name |-> node_name, irradiance |-> 0, temperature |-> 25,
     panel_health |-> FULL_PANEL_HEALTH, output_power_mwh |-> 0]

\* read_sensors without the floor.
read_sensors_NoFloor(node, draw) ==
    [node EXCEPT !.irradiance = draw.irradiance,
                 !.temperature = draw.temperature,
                 !.panel_health = node.panel_health - draw.degradation]

\* draw: the three random.uniform results of one read_sensors call
read_sensors(node, draw) ==
    [node EXCEPT !.irradiance = draw.irradiance,
                 !.temperature = draw.temperature,
                 !.panel_health = Max(MIN_PANEL_HEALTH,
                                      node.panel_health - draw.degradation)]

calibrate_output(node) ==
    LET base_power    == node.irradiance * 3
        health_factor == node.panel_health
        temp_factor   == Max(MIN_TEMP_FACTOR, 100 - (node.temperature - 25))
    IN  [node EXCEPT !.output_power_mwh =
            base_power * health_factor * temp_factor * SIM_INTERVAL_SECONDS]

generate_energy(node, draw) == calibrate_output(read_sensors(node, draw))

(* UniversalDistributionNode *)

UniversalDistributionNode(region_name, id) ==
    [id |-> id, region_name |-> region_name, energy_balance |-> 0]

\* The whole amount to every node.
balance_and_distribute_Undivided(node, amount) ==
    [node EXCEPT !.energy_balance = @ + amount]

balance_and_distribute(node, amount) ==
    [node EXCEPT !.energy_balance = @ + amount \div Len(GRID_NODES)]

(* AISovereigntyProtocol *)

AISovereigntyProtocol(id) == [id |-> id]

\* ">=" for ">"
monitor_grid_integrity_Inclusive(threat_level) == threat_level >= THREAT_THRESHOLD

monitor_grid_integrity(threat_level) == threat_level > THREAT_THRESHOLD

(* Resource generators; rate is the random.uniform draw, minutes = seconds/60 *)

ai_boring_search_for_gold(rate, seconds) == RoundDiv(rate * seconds, 60)

ai_boring_search_for_oil(rate, seconds) == RoundDiv(rate * seconds, 60)

quiet_nuclear_protocol_scan(choice, seconds) == choice

---------------------------------------------------------------------------
(* run_simulation_step *)

\* "current_results[key] = value", whether the key is present or not
WithDefault_Always(cr, key, value) ==
    [k \in DOMAIN cr \cup {key} |-> IF k = key THEN value ELSE cr[k]]

\* "if key not in current_results: current_results[key] = value"
WithDefault(cr, key, value) ==
    IF key \in DOMAIN cr THEN cr ELSE cr @@ (key :> value)

CountMissing(cr, key, n) == IF key \in DOMAIN cr THEN 0 ELSE n

\* The first-run initialisation; ids of new objects continue after base.
LazyInit(cr, base) ==
    LET R  == Len(GRID_NODES)
        b1 == base + CountMissing(cr, "solar_nodes", R)
        b2 == b1 + CountMissing(cr, "distribution_nodes", R)
        s1 == WithDefault(cr, "solar_nodes",
                  [i \in 1..R |-> SolarNodeController(GRID_NODES[i], base + i)])
        s2 == WithDefault(s1, "distribution_nodes",
                  [i \in 1..R |-> UniversalDistributionNode(GRID_NODES[i], b1 + i)])
        s3 == WithDefault(s2, "asp", AISovereigntyProtocol(b2 + 1))
        s4 == WithDefault(s3, "energy", [total_mwh |-> 0])
        s5 == WithDefault(s4, "gold", 0)
        s6 == WithDefault(s5, "oil", 0)
        s7 == WithDefault(s6, "nuclear_signatures", 0)
        s8 == WithDefault(s7, "anomalies", <<>>)
        s9 == WithDefault(s8, "supply_chain", <<>>)
        s10 == WithDefault(s9, "orbital", <<>>)
        s11 == WithDefault(s10, "ids", <<>>)
        s12 == WithDefault(s11, "bcp_transactions", <<>>)
    IN  WithDefault(s12, "logs", <<>>)

ObjectsConstructed(cr) ==
    CountMissing(cr, "solar_nodes", Len(GRID_NODES))
    + CountMissing(cr, "distribution_nodes", Len(GRID_NODES))
    + CountMissing(cr, "asp", 1)

\* "total = found"
Accumulate_Overwrite(total, found) == found

\* "total += found"
Accumulate(total, found) == total + found

\* The sovereign-id line left out.
RegionLines_NoId(t, region) ==
    << Line(t, "SUPPLY_CHAIN", region), Line(t, "ORBITAL SCAN", region) >>

\* The three lines of one region, in the order they are appended.
RegionLines(t, region) ==
    << Line(t, "SUPPLY_CHAIN", region),
       Line(t, "ORBITAL SCAN", region),
       Line(t, "SOVEREIGN ID", region) >>

RECURSIVE RegionalOperations(_, _)
RegionalOperations(t, regions) ==
    IF regions = <<>> THEN <<>>
    ELSE RegionLines(t, Head(regions)) \o RegionalOperations(t, Tail(regions))

\* "logs = logs[:50]"
TrimLogs_KeepFirst(logs) ==
    IF Len(logs) <= LOG_LIMIT THEN logs ELSE SubSeq(logs, 1, LOG_LIMIT)

\* "logs = logs[-50:]"
TrimLogs(logs) ==
    IF Len(logs) <= LOG_LIMIT THEN logs
    ELSE SubSeq(logs, Len(logs) - LOG_LIMIT + 1, Len(logs))

NoCall ==
    [sim_interval_seconds |-> 0, generated_mwh_this_interval |-> 0,
     threat_level |-> 0, gold_found |-> 0, oil_found |-> 0, nuc_found |-> 0,
     appended |-> <<>>, raised |-> "none"]

\* One step.  cr: the state passed in; d: the random draws of the step;
\* base: the number of objects constructed before.  The result holds the
\* returned state and the step's arguments and locals.
run_simulation_step(cr, current_time, sim_interval_seconds, d, base) ==
    LET R      == Len(GRID_NODES)
        s0     == LazyInit(cr, base)
        solar  == [i \in 1..Len(s0.solar_nodes) |->
                      generate_energy(s0.solar_nodes[i], d.sensors[i])]
        generated_mwh_this_interval ==
                  SumSeq([i \in 1..Len(solar) |-> solar[i].output_power_mwh])
        energy == [s0.energy EXCEPT !.total_mwh =
                      Accumulate(@, generated_mwh_this_interval)]
        energyLine == << Line(current_time, "ENERGY", "") >>
        raises == Len(s0.distribution_nodes) > 0 /\ R = 0
        dist   == [i \in 1..Len(s0.distribution_nodes) |->
                      balance_and_distribute(s0.distribution_nodes[i],
                                             generated_mwh_this_interval)]
        distLines == [i \in 1..Len(dist) |->
                      Line(current_time, "DISTRIBUTION", dist[i].region_name)]
        regional == RegionalOperations(current_time, GRID_NODES)
        flagged == monitor_grid_integrity(d.threat)
        anomaly_msg == Line(current_time, "ASP ALERT", "")
        alert  == IF flagged THEN << anomaly_msg >> ELSE <<>>
        gold_found == ai_boring_search_for_gold(d.gold, sim_interval_seconds)
        oil_found  == ai_boring_search_for_oil(d.oil, sim_interval_seconds)
        nuc_found  == quiet_nuclear_protocol_scan(d.nuc, sim_interval_seconds)
        resourceLines == << Line(current_time, "GOLD SEARCH", ""),
                            Line(current_time, "OIL SEARCH", ""),
                            Line(current_time, "NUCLEAR SCAN", "") >>
        appended == energyLine \o distLines \o regional \o alert \o resourceLines
        locals == [sim_interval_seconds |-> sim_interval_seconds,
                   generated_mwh_this_interval |-> generated_mwh_this_interval,
                   threat_level |-> d.threat,
                   gold_found |-> gold_found, oil_found |-> oil_found,
                   nuc_found |-> nuc_found,
                   appended |-> appended, raised |-> "none"]
        \* the locals assigned before the exception
        raised == [NoCall EXCEPT
                     !.sim_interval_seconds = sim_interval_seconds,
                     !.generated_mwh_this_interval = generated_mwh_this_interval,
                     !.appended = energyLine,
                     !.raised = "ZeroDivisionError"]
    IN  IF raises
        THEN \* ZeroDivisionError in the first balance_and_distribute: the
             \* state keeps what was mutated in place up to there.
             [state  |-> [s0 EXCEPT !.solar_nodes = solar, !.energy = energy,
                                    !.logs = @ \o energyLine],
              locals |-> raised]
        ELSE [state |->
                [s0 EXCEPT
                   !.solar_nodes = solar,
                   !.energy = energy,
                   !.distribution_nodes = dist,
                   !.supply_chain = @ \o SelectSeq(regional,
                                        LAMBDA l : l.tag = "SUPPLY_CHAIN"),
                   !.orbital = @ \o SelectSeq(regional,
                                        LAMBDA l : l.tag = "ORBITAL SCAN"),
                   !.ids = @ \o SelectSeq(regional,
                                        LAMBDA l : l.tag = "SOVEREIGN ID"),
                   !.anomalies = @ \o alert,
                   !.gold = Accumulate(@, gold_found),
                   !.oil = Accumulate(@, oil_found),
                   !.nuclear_signatures = Accumulate(@, nuc_found),
                   !.logs = TrimLogs(@ \o appended)],
              locals |-> locals]

---------------------------------------------------------------------------
(* Random draws of one step *)

\* random.uniform(800, 1200), random.uniform(15, 45), random.uniform(0, 0.01)
SensorDraws ==
    { [irradiance |-> 8,  temperature |-> 45, degradation |-> 1],
      [irradiance |-> 12, temperature |-> 15, degradation |-> 0] }

\* All nodes read the same conditions in one step.
SensorVectors ==
    { [i \in 1..Len(GRID_NODES) |-> a] : a \in SensorDraws }

\* random.uniform(1000, 9000)
ThreatDraws == {1000, 8500, 8501}

\* random.uniform(0, 0.002), random.uniform(0, 0.003), random.choice([0, 1])
ResourceDraws ==
    { [gold |-> 0, oil |-> 0, nuc |-> 0],
      [gold |-> 2000, oil |-> 3000, nuc |-> 1] }

TickDraws ==
    { [sensors |-> s, threat |-> th, gold |-> r.gold, oil |-> r.oil, nuc |-> r.nuc] :
        s \in SensorVectors, th \in ThreatDraws, r \in ResourceDraws }

---------------------------------------------------------------------------
(* The dashboard driver: streamlit_app.py *)

\* Session state after the initialisation of lines 33-59.
SessionState ==
    LET R == Len(GRID_NODES)
    IN  [energy |-> [total_mwh |-> 0], gold |-> 0, oil |-> 0,
         nuclear_signatures |-> 0, anomalies |-> <<>>, supply_chain |-> <<>>,
         orbital |-> <<>>, ids |-> <<>>, bcp_transactions |-> <<>>,
         logs |-> <<>>, current_sim_time |-> UtcNow, sim_step_count |-> 0,
         solar_nodes |-> [i \in 1..R |-> SolarNodeController(GRID_NODES[i], i)],
         distribution_nodes |->
             [i \in 1..R |-> UniversalDistributionNode(GRID_NODES[i], R + i)],
         asp |-> AISovereigntyProtocol(2 * R + 1)]

InitDriver ==
    /\ simulation_running = FALSE
    /\ sim_results = SessionState
    /\ objects_created = 2 * Len(GRID_NODES) + 1
    /\ ticks = 0
    /\ starts = 0
    /\ step_locals = NoCall

Init ==
    /\ GRID_NODES = DefaultGridNodes
    /\ InitDriver

\* Start re-initialising the session state instead of re-basing the time.
Start_Reset ==
    /\ ~simulation_running
    /\ starts < MaxStarts
    /\ simulation_running' = TRUE
    /\ sim_results' = [SessionState EXCEPT
                          !.solar_nodes = sim_results.solar_nodes,
                          !.distribution_nodes = sim_results.distribution_nodes,
                          !.asp = sim_results.asp]
    /\ starts' = starts + 1
    /\ UNCHANGED <<GRID_NODES, objects_created, ticks, step_locals>>

\* "Start Simulation" pressed (enabled only while stopped).
Start ==
    /\ ~simulation_running
    /\ starts < MaxStarts
    /\ simulation_running' = TRUE
    /\ sim_results' = [sim_results EXCEPT !.current_sim_time = UtcNow]
    /\ starts' = starts + 1
    /\ UNCHANGED <<GRID_NODES, objects_created, ticks, step_locals>>

\* "Stop Simulation" pressed (enabled only while running).
Stop ==
    /\ simulation_running
    /\ simulation_running' = FALSE
    /\ UNCHANGED <<GRID_NODES, sim_results, objects_created, ticks, starts,
                   step_locals>>

\* The time advanced, the step not counted.
LoopAdvance_Uncounted(sr) ==
    [sr EXCEPT !.current_sim_time = @ + SIM_INTERVAL_SECONDS]

\* Lines 92-95: advance the simulated time and count the step.
LoopAdvance(sr) ==
    [sr EXCEPT !.current_sim_time = @ + SIM_INTERVAL_SECONDS,
               !.sim_step_count = @ + 1]

\* One pass of the simulation loop, lines 90-102: the time is advanced, the
\* step counted and run_simulation_step run, without a button press taking
\* effect in between (a press is seen by the next run of the script).
Tick(draws, limit) ==
    /\ simulation_running
    /\ ticks < limit
    /\ \E d \in draws :
         LET sr  == LoopAdvance(sim_results)
             res == run_simulation_step(sr, sr.current_sim_time,
                                        SIM_INTERVAL_SECONDS, d, objects_created)
         IN  /\ sim_results' = res.state
             /\ step_locals' = res.locals
             /\ objects_created' = objects_created + ObjectsConstructed(sr)
    /\ ticks' = ticks + 1
    /\ UNCHANGED <<GRID_NODES, simulation_running, starts>>

Next == Start \/ Stop \/ Tick(TickDraws, MaxTicks)

Spec == Init /\ [][Next]_vars

---------------------------------------------------------------------------
(* A long uninterrupted run: Start, then ticks. *)

\* A quiet tick and an eventful tick.
RunDraws ==
    { [sensors |-> [i \in 1..Len(GRID_NODES) |->
                      [irradiance |-> 8, temperature |-> 45, degradation |-> 1]],
       threat |-> 8500, gold |-> 0, oil |-> 0, nuc |-> 0],
      [sensors |-> [i \in 1..Len(GRID_NODES) |->
                      [irradiance |-> 12, temperature |-> 15, degradation |-> 0]],
       threat |-> 8501, gold |-> 2000, oil |-> 3000, nuc |-> 1] }

NextRun == Start \/ Tick(RunDraws, RunTicks)

SpecRun == Init /\ [][NextRun]_vars

---------------------------------------------------------------------------
(* The region set as a configuration input ("can be modified externally"). *)

GridConfigs == { SubSeq(DefaultGridNodes, 1, n) : n \in 0..Len(DefaultGridNodes) }

InitCfg ==
    /\ GRID_NODES \in GridConfigs
    /\ InitDriver

NextCfg == Start \/ Stop \/ Tick(TickDraws, CfgTicks)

SpecCfg == InitCfg /\ [][NextCfg]_vars

---------------------------------------------------------------------------
(* run_simulation_step as a function of the state it is given: a caller   *)
(* passes a state that lacks fields, or one that has been in use.          *)

\* The 16 lines a tick without an alert appended at time t.
QuietTickLines(t) ==
    << Line(t, "ENERGY", "") >>
    \o [i \in 1..Len(GRID_NODES) |-> Line(t, "DISTRIBUTION", GRID_NODES[i])]
    \o RegionalOperations(t, GRID_NODES)
    \o << Line(t, "GOLD SEARCH", ""), Line(t, "OIL SEARCH", ""),
          Line(t, "NUCLEAR SCAN", "") >>

\* The last n lines of the four ticks before UtcNow.
UsedLogs(n) ==
    LET all == QuietTickLines(UtcNow - 4) \o QuietTickLines(UtcNow - 3)
               \o QuietTickLines(UtcNow - 2) \o QuietTickLines(UtcNow - 1)
    IN  SubSeq(all, Len(all) - n + 1, Len(all))

\* A state that has been in use: panels at health h, n lines in the log.
UsedState(h, n) ==
    [SessionState EXCEPT
       !.solar_nodes = [i \in DOMAIN @ |-> [@[i] EXCEPT !.panel_health = h]],
       !.distribution_nodes =
            [i \in DOMAIN @ |-> [@[i] EXCEPT !.energy_balance = 7920000]],
       !.energy = [total_mwh |-> 7920000 * Len(GRID_NODES)],
       !.gold = 33, !.oil = 50, !.nuclear_signatures = 1,
       !.supply_chain = SelectSeq(UsedLogs(n), LAMBDA l : l.tag = "SUPPLY_CHAIN"),
       !.orbital = SelectSeq(UsedLogs(n), LAMBDA l : l.tag = "ORBITAL SCAN"),
       !.ids = SelectSeq(UsedLogs(n), LAMBDA l : l.tag = "SOVEREIGN ID"),
       !.logs = UsedLogs(n)]

Without(cr, key) == [k \in DOMAIN cr \ {key} |-> cr[k]]

LazyKeys ==
    {"solar_nodes", "distribution_nodes", "asp", "energy", "gold", "oil",
     "nuclear_signatures", "anomalies", "supply_chain", "orbital", "ids",
     "bcp_transactions", "logs"}

InputStates ==
    { <<>> }
    \cup { Without(UsedState(FULL_PANEL_HEALTH - 1, 20), k) : k \in LazyKeys }
    \cup { UsedState(h, LOG_LIMIT) :
             h \in {MIN_PANEL_HEALTH, MIN_PANEL_HEALTH + 1, FULL_PANEL_HEALTH} }
    \cup { UsedState(FULL_PANEL_HEALTH, n) : n \in {0, 40} }

Intervals == {SIM_INTERVAL_SECONDS, 2 * SIM_INTERVAL_SECONDS}

InitStep ==
    /\ GRID_NODES = DefaultGridNodes
    /\ simulation_running = FALSE
    /\ sim_results \in InputStates
    /\ objects_created = 2 * Len(GRID_NODES) + 1
    /\ ticks = 0
    /\ starts = 0
    /\ step_locals = NoCall

\* A caller passes its state, its clock and an interval of its choice, and
\* keeps the returned state for the next call.
StepCall ==
    /\ ticks < MaxCalls
    /\ \E secs \in Intervals, d \in TickDraws :
         LET res == run_simulation_step(sim_results, UtcNow + ticks, secs, d,
                                        objects_created)
         IN  /\ sim_results' = res.state
             /\ step_locals' = res.locals
             /\ objects_created' = objects_created + ObjectsConstructed(sim_results)
    /\ ticks' = ticks + 1
    /\ UNCHANGED <<GRID_NODES, simulation_running, starts>>

NextStep == StepCall

SpecStep == InitStep /\ [][NextStep]_vars

---------------------------------------------------------------------------
(* Properties *)

\* The value of a field, or dflt while the field is missing.
Field(cr, key, dflt) == IF key \in DOMAIN cr THEN cr[key] ELSE dflt

IsStep == ticks' = ticks + 1

\* s is the sequence of the last Len(s) entries of full.
IsSuffix(s, full) ==
    /\ Len(s) <= Len(full)
    /\ \A j \in 1..Len(s) : s[j] = full[Len(full) - Len(s) + j]

IsPrefix(s, full) ==
    /\ Len(s) <= Len(full)
    /\ \A j \in 1..Len(s) : s[j] = full[j]

CountTag(lines, tag) == Cardinality({j \in 1..Len(lines) : lines[j].tag = tag})

\* C1: after every run_simulation_step, whatever the log held before, 'logs'
\* has at most 50 entries and is, in order, the last 50 entries of the old
\* log followed by the lines appended in this step (the oldest are dropped).
C1_LogsKeepLast50 ==
    [][IsStep =>
        LET full == Field(sim_results, "logs", <<>>) \o step_locals'.appended
        IN  /\ Len(sim_results'.logs) <= 50
            /\ Len(sim_results'.logs) = Min(50, Len(full))
            /\ IsSuffix(sim_results'.logs, full)]_vars

\* A step has run on a full log: 50 lines are kept, the first of them from
\* the middle of an earlier tick, the last 16 or 17 from this one.
C1_Witness ==
    /\ ticks >= 1
    /\ Len(sim_results.logs) = 50
    /\ sim_results.logs[1].tag # "ENERGY"
    /\ sim_results.logs[1].time # sim_results.logs[50].time
    /\ IsSuffix(step_locals.appended, sim_results.logs)

\* C2: no tick decreases an accumulator: energy total_mwh, gold, oil and
\* nuclear_signatures after a step are at least what they were before it.
C2_AccumulatorsNeverDecrease ==
    [][/\ sim_results'.energy.total_mwh >= sim_results.energy.total_mwh
       /\ sim_results'.gold >= sim_results.gold
       /\ sim_results'.oil >= sim_results.oil
       /\ sim_results'.nuclear_signatures >= sim_results.nuclear_signatures]_vars

\* A tick that found nothing has followed ticks that found something.
C2_Witness ==
    /\ ticks >= 2
    /\ step_locals.gold_found = 0 /\ step_locals.oil_found = 0
    /\ step_locals.nuc_found = 0
    /\ sim_results.gold > 0 /\ sim_results.oil > 0
    /\ sim_results.nuclear_signatures > 0
    /\ sim_results.energy.total_mwh > step_locals.generated_mwh_this_interval

\* The panel health a node had before a step (a node not yet constructed
\* starts at full health).
HealthBefore(i) ==
    IF "solar_nodes" \in DOMAIN sim_results
    THEN sim_results.solar_nodes[i].panel_health
    ELSE FULL_PANEL_HEALTH

\* C3: panel_health of every solar node stays within [80, 100], never
\* increases, and changes only in a step that runs the node's generate_energy.
C3_PanelHealthBounded ==
    [][\A i \in 1..Len(sim_results'.solar_nodes) :
          LET h == sim_results'.solar_nodes[i].panel_health
          IN  /\ 8000 <= h /\ h <= 10000
              /\ 8000 <= HealthBefore(i) /\ HealthBefore(i) <= 10000
              /\ h <= HealthBefore(i)
              /\ (h # HealthBefore(i) => IsStep)]_vars

\* Two steps have run on a node at the floor, the last under degrading
\* conditions, and it is still at 80.
C3_Witness ==
    /\ ticks = 2
    /\ \E i \in 1..Len(sim_results.solar_nodes) :
          /\ sim_results.solar_nodes[i].panel_health = 8000
          /\ sim_results.solar_nodes[i].irradiance = 8

\* C4: with R regions, a tick raises every distribution node's balance by
\* exactly tick_energy / R, the increments add up to the tick's energy, and
\* every balance is the running energy total divided by R.
C4_EqualShares ==
    [][IsStep =>
        LET R    == Len(GRID_NODES)
            gen  == step_locals'.generated_mwh_this_interval
            old  == sim_results.distribution_nodes
            new  == sim_results'.distribution_nodes
            incr == [i \in 1..Len(new) |->
                        new[i].energy_balance - old[i].energy_balance]
        IN  /\ Len(new) = R
            /\ \A i \in 1..R : incr[i] * R = gen
            /\ SumSeq(incr) = gen
            /\ \A i \in 1..R :
                   new[i].energy_balance * R = sim_results'.energy.total_mwh]_vars

\* Two ticks over three regions: balances hold a third of the total each.
C4_Witness ==
    /\ ticks >= 2
    /\ Len(GRID_NODES) = 3
    /\ step_locals.generated_mwh_this_interval > 0
    /\ sim_results.energy.total_mwh > step_locals.generated_mwh_this_interval
    /\ \A i \in 1..3 : sim_results.distribution_nodes[i].energy_balance * 3
                          = sim_results.energy.total_mwh

\* C5: a tick appends exactly one anomaly entry to 'anomalies', and the same
\* line to 'logs', iff the threat level drawn is strictly above 8500; at 8500
\* or below nothing is appended; so 'anomalies' is never longer than the
\* number of ticks.
C5_AnomalyIffThreatAbove8500 ==
    [][IsStep =>
        LET th  == step_locals'.threat_level
            app == step_locals'.appended
            old == sim_results.anomalies
            new == sim_results'.anomalies
            log == sim_results'.logs
        IN  /\ th > 8500 =>
                 /\ Len(new) = Len(old) + 1
                 /\ IsPrefix(old, new)
                 /\ new[Len(new)].tag = "ASP ALERT"
                 /\ CountTag(app, "ASP ALERT") = 1
                 /\ \E j \in 1..Len(log) :
                        /\ log[j] = new[Len(new)]
                        /\ j > Len(log) - Len(app)
            /\ th <= 8500 =>
                 /\ new = old
                 /\ CountTag(app, "ASP ALERT") = 0
            /\ Len(new) <= ticks']_vars

\* A tick at exactly 8500 has followed a tick that flagged an anomaly.
C5_Witness ==
    /\ ticks >= 2
    /\ step_locals.threat_level = 8500
    /\ Len(sim_results.anomalies) = 1
    /\ CountTag(sim_results.logs, "ASP ALERT") = 1

\* C6: step_count in the state equals the number of ticks performed on it;
\* from a fresh state with 3 regions and interval 1 s, 10 ticks give 10.
C6_StepCountIsTickCount ==
    /\ sim_results.sim_step_count = ticks
    /\ step_locals.sim_interval_seconds \in {0, 1}

\* Ten ticks have been performed on the three-region state.
C6_Witness ==
    /\ ticks = 10
    /\ sim_results.sim_step_count = 10
    /\ Len(GRID_NODES) = 3

Missing(key) == key \notin DOMAIN sim_results

Ids(nodes) == [i \in 1..Len(nodes) |-> nodes[i].id]

\* C7: run_simulation_step creates every field the state lacks (zero totals,
\* empty logs, one solar and one distribution node per region, one monitor)
\* and nothing else: a field that is present keeps its objects and its
\* accumulated values, and a state returned by a step gets no new object.
C7_LazyInitOnce ==
    [][IsStep =>
        LET old == sim_results
            new == sim_results'
            loc == step_locals'
            R   == Len(GRID_NODES)
        IN  /\ LazyKeys \subseteq DOMAIN new
            /\ DOMAIN old \subseteq DOMAIN new
            \* the nodes and the monitor
            /\ Len(new.solar_nodes) = R /\ Len(new.distribution_nodes) = R
            /\ \A i \in 1..R : /\ new.solar_nodes[i].node_name = GRID_NODES[i]
                               /\ new.distribution_nodes[i].region_name = GRID_NODES[i]
            /\ IF Missing("solar_nodes")
               THEN \A i \in 1..R :
                      /\ new.solar_nodes[i].id > objects_created
                      /\ new.solar_nodes[i].panel_health >= 10000 - 1
               ELSE /\ Ids(new.solar_nodes) = Ids(old.solar_nodes)
                    /\ \A i \in 1..R : new.solar_nodes[i].panel_health
                                          <= old.solar_nodes[i].panel_health
            /\ IF Missing("distribution_nodes")
               THEN \A i \in 1..R :
                      /\ new.distribution_nodes[i].id > objects_created
                      /\ new.distribution_nodes[i].energy_balance * R
                            = loc.generated_mwh_this_interval
               ELSE /\ Ids(new.distribution_nodes) = Ids(old.distribution_nodes)
                    /\ \A i \in 1..R :
                          (new.distribution_nodes[i].energy_balance
                             - old.distribution_nodes[i].energy_balance) * R
                            = loc.generated_mwh_this_interval
            /\ IF Missing("asp") THEN new.asp.id > objects_created
                                 ELSE new.asp = old.asp
            /\ Cardinality({new.solar_nodes[i].id : i \in 1..R}
                           \cup {new.distribution_nodes[i].id : i \in 1..R}
                           \cup {new.asp.id}) = 2 * R + 1
            /\ objects_created' - objects_created
                  = (IF Missing("solar_nodes") THEN R ELSE 0)
                    + (IF Missing("distribution_nodes") THEN R ELSE 0)
                    + (IF Missing("asp") THEN 1 ELSE 0)
            /\ ticks >= 1 => objects_created' = objects_created
            \* the totals
            /\ new.energy.total_mwh
                  = Field(old, "energy", [total_mwh |-> 0]).total_mwh
                    + loc.generated_mwh_this_interval
            /\ new.gold = Field(old, "gold", 0) + loc.gold_found
            /\ new.oil = Field(old, "oil", 0) + loc.oil_found
            /\ new.nuclear_signatures
                  = Field(old, "nuclear_signatures", 0) + loc.nuc_found
            \* the logs
            /\ IsPrefix(Field(old, "anomalies", <<>>), new.anomalies)
            /\ Len(new.anomalies) <= Len(Field(old, "anomalies", <<>>)) + 1
            /\ \A k \in {"supply_chain", "orbital", "ids"} :
                   /\ IsPrefix(Field(old, k, <<>>), new[k])
                   /\ Len(new[k]) = Len(Field(old, k, <<>>)) + R
            /\ new.bcp_transactions = Field(old, "bcp_transactions", <<>>)
            /\ IsSuffix(loc.appended, new.logs)
            /\ Len(Field(old, "logs", <<>>)) + Len(loc.appended) <= 50
                  => new.logs = Field(old, "logs", <<>>) \o loc.appended]_vars

\* A step on the empty state constructed all seven objects, and a second
\* step on the returned state has run.
C7_Witness ==
    /\ ticks = 2
    /\ objects_created = 2 * (2 * Len(GRID_NODES) + 1)
    /\ sim_results.solar_nodes[1].id = 2 * Len(GRID_NODES) + 2
    /\ Len(sim_results.supply_chain) = 2 * Len(GRID_NODES)
    /\ Len(sim_results.logs) >= 32

\* C8: with an empty region set the system reports "configuration invalid:
\* empty region set" at startup, so it never runs a tick -- neither one that
\* fails in the division by the region count nor one that runs silently.
C8_EmptyRegionSetRejected ==
    GRID_NODES = <<>> => ticks = 0

\* The output the formula gives a node for an interval of `seconds`.
OutputFor(node, seconds) ==
    node.irradiance * 3 * node.panel_health
        * Max(75, 100 - (node.temperature - 25)) * seconds

\* C9: the interval passed to run_simulation_step is the interval of every
\* quantity of the tick: each solar node's output is proportional to
\* interval_seconds / 3600 of that interval (so that doubling the interval
\* doubles the tick energy), as the resource searches get interval / 60.
C9_IntervalArgumentUsed ==
    ticks >= 1 =>
        /\ \A i \in 1..Len(sim_results.solar_nodes) :
              sim_results.solar_nodes[i].output_power_mwh
                 = OutputFor(sim_results.solar_nodes[i],
                             step_locals.sim_interval_seconds)
        /\ step_locals.gold_found \in
              {RoundDiv(r * step_locals.sim_interval_seconds, 60) : r \in {0, 2000}}
        /\ step_locals.oil_found \in
              {RoundDiv(r * step_locals.sim_interval_seconds, 60) : r \in {0, 3000}}

\* C10: before trimming, a tick appends 1 energy line, 1 line per
\* distribution node, 3 lines per region (each also appended once to its own
\* untrimmed log), 3 resource lines, and 1 anomaly line only when one is
\* flagged; from a fresh state with 3 regions the log holds
\* min(50, 16 * n + anomalies so far) lines after n ticks.
C10_LinesPerTick ==
    /\ ticks >= 1 =>
        LET app == step_locals.appended
            R   == Len(GRID_NODES)
            a   == IF step_locals.threat_level > 8500 THEN 1 ELSE 0
        IN  /\ Len(app) = 1 + R + 3 * R + 3 + a
            /\ CountTag(app, "ENERGY") = 1
            /\ CountTag(app, "DISTRIBUTION") = R
            /\ CountTag(app, "SUPPLY_CHAIN") = R
            /\ CountTag(app, "ORBITAL SCAN") = R
            /\ CountTag(app, "SOVEREIGN ID") = R
            /\ CountTag(app, "ASP ALERT") = a
            /\ CountTag(app, "GOLD SEARCH") = 1
            /\ CountTag(app, "OIL SEARCH") = 1
            /\ CountTag(app, "NUCLEAR SCAN") = 1
    /\ Len(sim_results.supply_chain) = Len(GRID_NODES) * ticks
    /\ Len(sim_results.orbital) = Len(GRID_NODES) * ticks
    /\ Len(sim_results.ids) = Len(GRID_NODES) * ticks
    /\ Len(GRID_NODES) = 3 =>
          Len(sim_results.logs)
             = Min(50, 16 * ticks + Len(sim_results.anomalies))

\* Four ticks, the last with the only anomaly: 17 lines appended, 65 in
\* all, 50 kept; each regional log holds its 12 lines.
C10_Witness ==
    /\ ticks = 4
    /\ Len(sim_results.anomalies) = 1
    /\ Len(step_locals.appended) = 17
    /\ Len(sim_results.logs) = 50
    /\ Len(sim_results.supply_chain) = 12

\* C11: in the driver a tick runs only while simulation_running is true;
\* after Stop no field of the simulation state (totals, logs, step count,
\* simulated time, node objects) changes until Start is pressed again;
\* Start resumes from the accumulated totals and step count and re-bases
\* only the simulated time; and a tick, once started, runs to completion
\* (time advanced, step counted, every line appended, no exception) with
\* the running flag left as it was.
C11_TicksOnlyWhileRunning ==
    [][/\ IsStep =>
            /\ simulation_running /\ simulation_running'
            /\ sim_results'.sim_step_count = sim_results.sim_step_count + 1
            /\ sim_results'.current_sim_time
                  = sim_results.current_sim_time + 1
            /\ step_locals'.raised = "none"
            /\ Len(step_locals'.appended) >= 4 * Len(GRID_NODES) + 4
            /\ step_locals'.appended[Len(step_locals'.appended)]
                  = [time |-> sim_results'.current_sim_time % 86400,
                     tag |-> "NUCLEAR SCAN", region |-> ""]
            /\ IsSuffix(step_locals'.appended, sim_results'.logs)
       \* stopped before and after: nothing moves
       /\ (~simulation_running /\ ~simulation_running') =>
            /\ sim_results' = sim_results
            /\ ticks' = ticks
            /\ objects_created' = objects_created
       \* Stop itself
       /\ (simulation_running /\ ~simulation_running') =>
            /\ sim_results' = sim_results
            /\ ticks' = ticks
       \* Start: everything but the simulated time is kept
       /\ (~simulation_running /\ simulation_running') =>
            /\ DOMAIN sim_results' = DOMAIN sim_results
            /\ \A k \in DOMAIN sim_results \ {"current_sim_time"} :
                   sim_results'[k] = sim_results[k]
            /\ sim_results'.current_sim_time = UtcNow
            /\ ticks' = ticks
            /\ objects_created' = objects_created]_vars

\* Stopped after two ticks and started again, then one more tick: the step
\* count and the totals go on from where they were, the simulated time is
\* one interval after the re-base.
C11_Witness ==
    /\ starts = 2
    /\ simulation_running
    /\ ticks = 3
    /\ sim_results.sim_step_count = 3
    /\ sim_results.current_sim_time = UtcNow + 1
    /\ sim_results.energy.total_mwh > step_locals.generated_mwh_this_interval
    /\ Len(sim_results.supply_chain) = 3 * Len(GRID_NODES)

\* Stopped after a tick: the state stays as the last tick left it.
C11_WitnessStopped ==
    /\ ~simulation_running
    /\ starts = 1
    /\ ticks >= 1
    /\ sim_results.sim_step_count = ticks

====
